---- MODULE Spec2Model ----
(***************************************************************************)
(* The particle fountain of src/main.rs: the per-frame systems particles() *)
(* and daylight_cycle(), the startup system setup(), and the command       *)
(* barrier of the schedule that main() builds.                             *)
(*                                                                         *)
(* Entities created by particles() are numbered 1, 2, 3, ... in the order  *)
(* in which commands.spawn() reserves them; the handles are opaque and     *)
(* never reused.  Lengths are in thousandths (radius 0.05 = 50), and the   *)
(* clock is sampled at multiples of a quarter of the sun's period, where   *)
(* sin and cos are exact.                                                  *)
(***************************************************************************)
EXTENDS Integers, Sequences, FiniteSets, TLC

\* const MAX_PARTICLES: usize = 512;
MAX_PARTICLES == 512

\* Variant: two spawn iterations per run, for _ in 0..2.
SpawnCountTwo == 1 + 1

\* for _ in 0..1 : the number of spawn iterations of one run of particles()
SpawnCount == 1

\* Number of frames explored.
MaxTicks == 515

\* Largest clock sample (in quarter periods of the sun) explored.
MaxTime == 2

VARIABLES
    stage,          \* "startup", "update" (systems running), "apply" (barrier)
    pcP,            \* position of particles(): "get", "spawn", "push", "done"
    iter,           \* loop index of for _ in 0..1
    e,              \* the local e: the entity reserved by commands.spawn(), 0 = none
    pcD,            \* position of daylight_cycle(): "run", "done"
    radius,         \* ParticleParams.radius, thousandths
    mesh,           \* ParticleParams.mesh: "default" or "icosphere"
    material,       \* ParticleParams.material: "default" or "ember"
    ringbuffer,     \* ParticleParams.ringbuffer, oldest handle first
    queue,          \* Commands queued in this frame, in issue order
    nextEntity,     \* the next entity id commands.spawn() reserves
    entities,       \* entities of the world that exist (particle handles only)
    live,           \* existing entities that carry the Particle components
    time,           \* Time: clock sample of the current frame (quarter periods)
    sun_position,   \* AtmosphereMat.sun_position, thousandths
    light,          \* the Sun entity's rotation and illuminance
    tick,           \* the number of the current frame, 0 during startup
    destroyRequests,\* history: per entity, despawn_recursive requests issued
    createdTick,    \* history: per entity, the frame that spawned it
    frameRing,      \* history: ringbuffer at the start of the frame
    frameNext,      \* history: nextEntity at the start of the frame
    frameSun        \* history: sun_position and light at the start of the frame

vars == <<stage, pcP, iter, e, pcD, radius, mesh, material, ringbuffer, queue,
          nextEntity, entities, live, time, sun_position, light, tick,
          destroyRequests, createdTick, frameRing, frameNext, frameSun>>

particleVars == <<radius, mesh, material, ringbuffer>>
sunVars == <<sun_position, light>>
worldVars == <<entities, live>>
historyVars == <<destroyRequests, createdTick, frameRing, frameNext, frameSun>>

\* f32::max
Max(a, b) == IF a < b THEN b ELSE a

----------------------------------------------------------------------------
(* ConstGenericRingBuffer<Entity, MAX_PARTICLES>, by its logical content.  *)

\* ringbuffer.get(index), index >= 0: None on an empty buffer, otherwise the
\* element index places after the read pointer (the oldest), wrapping.
\* Option<Entity> is the empty or the one-element set.
RingGet(rb, index) ==
    IF Len(rb) = 0 THEN {} ELSE {rb[(index % Len(rb)) + 1]}

\* Variant: a push that grows the buffer without evicting.
RingPushNoEvict(rb, value) == Append(rb, value)

\* Variant: a push that a full buffer rejects, keeping its content.
RingPushRejectWhenFull(rb, value) ==
    IF Len(rb) = MAX_PARTICLES THEN rb ELSE Append(rb, value)

\* ringbuffer.push(value): a full buffer drops its oldest element first.
RingPush(rb, value) ==
    IF Len(rb) = MAX_PARTICLES THEN Append(Tail(rb), value) ELSE Append(rb, value)

----------------------------------------------------------------------------
(* Commands                                                                *)

Cmd(op, entity) == [op |-> op, entity |-> entity]

\* commands.get_or_spawn(entity).despawn_recursive()
DespawnCommands(q, entity) ==
    q \o <<Cmd("get_or_spawn", entity), Cmd("despawn_recursive", entity)>>

\* Variant: the create request is issued ahead of the destroy request.
SpawnCommandsFirst(q, entity) == <<Cmd("spawn_particle", entity)>> \o q

\* commands.spawn() followed by spawn_particles(&mut e, &params)
SpawnCommands(q, entity) == Append(q, Cmd("spawn_particle", entity))

----------------------------------------------------------------------------
(* daylight_cycle: the sun at clock sample q, t = q * pi / 2               *)

Sin1000(q) == CASE q % 4 = 0 -> 0 [] q % 4 = 1 -> 1000 [] q % 4 = 2 -> 0 [] OTHER -> -1000
Cos1000(q) == Sin1000(q + 1)

\* pos.x = t.sin(); pos.z = t.cos(); pos.y = t.sin() * 0.5
SunPosition(q) == <<Sin1000(q), Sin1000(q) \div 2, Cos1000(q)>>

\* Transform::from_translation(pos).looking_at(Vec3::ZERO, Vec3::Y).rotation,
\* represented by the direction from pos to the origin
LookingAtOrigin(pos) == <<0 - pos[1], 0 - pos[2], 0 - pos[3]>>

\* pos.y.max(0.0).powf(2.0) * 100000.0, with y in thousandths:
\* (y / 1000)^2 * 100000 = y^2 / 10
Illuminance(y) == (Max(y, 0) * Max(y, 0)) \div 10

----------------------------------------------------------------------------
(* particles() run alone, as a function of the state it starts from        *)

\* One iteration of the loop body, lines 40-45.
Iteration(s) ==
    LET got == RingGet(s.rb, 0)
        q1  == IF got = {} THEN s.q
               ELSE DespawnCommands(s.q, CHOOSE x \in got : TRUE)
    IN  [rb |-> RingPush(s.rb, s.next),
         q |-> SpawnCommands(q1, s.next),
         next |-> s.next + 1]

RECURSIVE Iterations(_, _)
\* n iterations of the loop, lines 39-46.
Iterations(s, n) == IF n = 0 THEN s ELSE Iteration(Iterations(s, n - 1))

\* daylight_cycle() as a function of the clock and the light it finds.
SunAfter(q, l) ==
    <<SunPosition(q),
      IF l.exists
      THEN [l EXCEPT !.rotation = LookingAtOrigin(SunPosition(q)),
                     !.illuminance = Illuminance(SunPosition(q)[2])]
      ELSE l>>

----------------------------------------------------------------------------
Init ==
    /\ stage = "startup"
    /\ pcP = "done" /\ iter = 0 /\ e = 0
    /\ pcD = "done"
    /\ radius = 0 /\ mesh = "default" /\ material = "default"
    /\ ringbuffer = <<>>
    /\ queue = <<>>
    /\ nextEntity = 1
    /\ entities = {} /\ live = {}
    /\ time = 0
    /\ sun_position = <<0, 1000, 1000>>     \* AtmosphereMat::default()
    /\ light = [exists |-> FALSE, rotation |-> <<0, 0, 0>>, illuminance |-> 0]
    /\ tick = 0
    /\ destroyRequests = <<>> /\ createdTick = <<>>
    /\ frameRing = <<>> /\ frameNext = 1
    /\ frameSun = <<sun_position, light>>

\* setup(): fills in the shared particle parameters and spawns the Sun light;
\* the startup stage ends with its commands applied.
Setup ==
    /\ stage = "startup"
    /\ radius' = 50
    /\ mesh' = "icosphere"
    /\ material' = "ember"
    /\ light' = [exists |-> TRUE,
                 rotation |-> LookingAtOrigin(<<1000, 2000, 1000>>),
                 illuminance |-> 20000]
    /\ stage' = "apply"
    /\ UNCHANGED <<pcP, iter, e, pcD, ringbuffer, queue, nextEntity, worldVars,
                   time, sun_position, tick, historyVars>>

\* Variant: the destroy request is guarded by a fullness test that is off by
\* one and so never passes.
ParticlesGetNeverFull ==
    /\ stage = "update" /\ pcP = "get"
    /\ LET got == RingGet(ringbuffer, 0) IN
        IF got = {} \/ ~(Len(ringbuffer) > MAX_PARTICLES)
        THEN UNCHANGED <<queue, destroyRequests>>
        ELSE LET entity == CHOOSE x \in got : TRUE IN
             /\ queue' = DespawnCommands(queue, entity)
             /\ destroyRequests' =
                    [destroyRequests EXCEPT ![entity] = destroyRequests[entity] + 1]
    /\ pcP' = "spawn"
    /\ UNCHANGED <<stage, iter, e, pcD, particleVars, nextEntity, worldVars, time,
                   sunVars, tick, createdTick, frameRing, frameNext, frameSun>>

\* particles(), lines 40-42: if let Some(&entity) = params.ringbuffer.get(0)
ParticlesGet ==
    /\ stage = "update" /\ pcP = "get"
    /\ LET got == RingGet(ringbuffer, 0) IN
        IF got = {}
        THEN UNCHANGED <<queue, destroyRequests>>
        ELSE LET entity == CHOOSE x \in got : TRUE IN
             /\ queue' = DespawnCommands(queue, entity)
             /\ destroyRequests' =
                    [destroyRequests EXCEPT ![entity] = destroyRequests[entity] + 1]
    /\ pcP' = "spawn"
    /\ UNCHANGED <<stage, iter, e, pcD, particleVars, nextEntity, worldVars, time,
                   sunVars, tick, createdTick, frameRing, frameNext, frameSun>>

\* particles(), lines 43-44: let mut e = commands.spawn(); spawn_particles(..)
ParticlesSpawn ==
    /\ stage = "update" /\ pcP = "spawn"
    /\ e' = nextEntity
    /\ nextEntity' = nextEntity + 1
    /\ queue' = SpawnCommands(queue, nextEntity)
    /\ destroyRequests' = Append(destroyRequests, 0)
    /\ createdTick' = Append(createdTick, tick)
    /\ pcP' = "push"
    /\ UNCHANGED <<stage, iter, pcD, particleVars, worldVars, time, sunVars, tick,
                   frameRing, frameNext, frameSun>>

\* particles(), line 45: params.ringbuffer.push(e.id()); then the loop test
ParticlesPush ==
    /\ stage = "update" /\ pcP = "push"
    /\ ringbuffer' = RingPush(ringbuffer, e)
    /\ e' = 0
    /\ iter' = iter + 1
    /\ pcP' = IF iter + 1 < SpawnCount THEN "get" ELSE "done"
    /\ UNCHANGED <<stage, pcD, radius, mesh, material, queue, nextEntity,
                   worldVars, time, sunVars, tick, historyVars>>

\* Variant: the sun updater also resets the shared particle parameters'
\* buffer when it rewrites the sky.
DaylightCycleResetsParams ==
    /\ stage = "update" /\ pcD = "run"
    /\ LET pos == SunPosition(time) IN
        /\ sun_position' = pos
        /\ light' = IF light.exists
                    THEN [light EXCEPT !.rotation = LookingAtOrigin(pos),
                                       !.illuminance = Illuminance(pos[2])]
                    ELSE light
    /\ ringbuffer' = <<>>
    /\ pcD' = "done"
    /\ UNCHANGED <<stage, pcP, iter, e, radius, mesh, material, queue, nextEntity,
                   worldVars, time, tick, historyVars>>

\* daylight_cycle()
DaylightCycle ==
    /\ stage = "update" /\ pcD = "run"
    /\ LET pos == SunPosition(time) IN
        /\ sun_position' = pos
        /\ light' = IF light.exists
                    THEN [light EXCEPT !.rotation = LookingAtOrigin(pos),
                                       !.illuminance = Illuminance(pos[2])]
                    ELSE light
    /\ pcD' = "done"
    /\ UNCHANGED <<stage, pcP, iter, e, particleVars, queue, nextEntity,
                   worldVars, time, tick, historyVars>>

\* The end of the update stage: every system of the frame has run.
SystemsDone ==
    /\ stage = "update" /\ pcP = "done" /\ pcD = "done"
    /\ stage' = "apply"
    /\ UNCHANGED <<pcP, iter, e, pcD, particleVars, queue, nextEntity, worldVars,
                   time, sunVars, tick, historyVars>>

\* The command barrier applies the queued commands in issue order.
ApplyGetOrSpawn ==
    /\ stage = "apply" /\ queue # <<>> /\ Head(queue).op = "get_or_spawn"
    /\ entities' = entities \cup {Head(queue).entity}
    /\ queue' = Tail(queue)
    /\ UNCHANGED <<stage, pcP, iter, e, pcD, particleVars, nextEntity, live, time,
                   sunVars, tick, historyVars>>

ApplyDespawn ==
    /\ stage = "apply" /\ queue # <<>> /\ Head(queue).op = "despawn_recursive"
    /\ entities' = entities \ {Head(queue).entity}
    /\ live' = live \ {Head(queue).entity}
    /\ queue' = Tail(queue)
    /\ UNCHANGED <<stage, pcP, iter, e, pcD, particleVars, nextEntity, time,
                   sunVars, tick, historyVars>>

ApplySpawn ==
    /\ stage = "apply" /\ queue # <<>> /\ Head(queue).op = "spawn_particle"
    /\ entities' = entities \cup {Head(queue).entity}
    /\ live' = live \cup {Head(queue).entity}
    /\ queue' = Tail(queue)
    /\ UNCHANGED <<stage, pcP, iter, e, pcD, particleVars, nextEntity, time,
                   sunVars, tick, historyVars>>

\* The next frame starts: the clock has advanced (or not, within its
\* resolution) and every system is scheduled again.
NextFrame ==
    /\ stage = "apply" /\ queue = <<>>
    /\ tick < MaxTicks
    /\ tick' = tick + 1
    /\ \E t \in {time, time + 1} : t <= MaxTime /\ time' = t
    /\ stage' = "update"
    /\ pcP' = "get" /\ iter' = 0 /\ pcD' = "run"
    /\ frameRing' = ringbuffer
    /\ frameNext' = nextEntity
    /\ frameSun' = <<sun_position, light>>
    /\ UNCHANGED <<e, particleVars, queue, nextEntity, worldVars, sunVars,
                   destroyRequests, createdTick>>

Next ==
    \/ Setup
    \/ ParticlesGet
    \/ ParticlesSpawn
    \/ ParticlesPush
    \/ DaylightCycle
    \/ SystemsDone
    \/ ApplyGetOrSpawn
    \/ ApplyDespawn
    \/ ApplySpawn
    \/ NextFrame

Spec == Init /\ [][Next]_vars

----------------------------------------------------------------------------
(* Vocabulary of the properties                                            *)

Range(f) == {f[i] : i \in DOMAIN f}

Min(a, b) == IF a < b THEN a ELSE b

\* particles() has finished its run of the current frame (or has not been
\* scheduled yet, in the startup stage).
TickDone == pcP = "done"

\* The frame is over: the barrier has applied every queued command.
FrameEnd == stage = "apply" /\ queue = <<>> /\ tick >= 1

Spawned == 1 .. (nextEntity - 1)

\* Entities that have been issued no destroy request.
NeverDestroyed == {x \in Spawned : destroyRequests[x] = 0}

IsDestroy(c) == c.op = "despawn_recursive"

\* The handles first .. first + n - 1, in that order.
Consecutive(first, n) == [i \in 1 .. n |-> first + i - 1]

----------------------------------------------------------------------------
\* C1: after the (capacity+1)-th spawn the first handle has been issued
\* exactly one destroy request, is out of the buffer, and the buffer holds
\* handles 2 .. capacity+1 in spawn order.
C1_FifoEviction ==
    (TickDone /\ nextEntity = MAX_PARTICLES + 2) =>
        /\ destroyRequests[1] = 1
        /\ 1 \notin Range(ringbuffer)
        /\ ringbuffer = Consecutive(2, MAX_PARTICLES)

\* C2: a tick that starts with fewer than capacity handles in the buffer
\* issues no destroy request.
C2_EvictionOnlyWhenFull ==
    (tick >= 1 /\ Len(frameRing) < MAX_PARTICLES) =>
        \A i \in DOMAIN queue : ~IsDestroy(queue[i])

\* C3: the ring buffer never holds more than capacity handles, in every
\* state, the ones inside a tick included.
C3_CapacityInvariant == Len(ringbuffer) <= MAX_PARTICLES

\* C3 witness: a push onto a full buffer has happened and left it full.
C3_Witness ==
    /\ TickDone
    /\ nextEntity > MAX_PARTICLES + 2
    /\ Len(ringbuffer) = MAX_PARTICLES

\* C4: after k ticks the live particle count is min(k * spawn_count, capacity).
C4_MonotonicWarmup ==
    FrameEnd =>
        /\ Cardinality(live) = Min(tick * SpawnCount, MAX_PARTICLES)
        /\ Cardinality(NeverDestroyed) = Min(tick * SpawnCount, MAX_PARTICLES)

\* C5: from tick ceil(capacity / spawn_count) on, the live particle count at
\* the end of a tick is capacity.
C5_SteadyState ==
    (FrameEnd /\ tick * SpawnCount >= MAX_PARTICLES) =>
        Cardinality(live) = MAX_PARTICLES

\* C6: every iteration issues its destroy request before its create request,
\* and the number of live particles never exceeds capacity, the states
\* between two command applications at the barrier included.
C6_DespawnBeforeSpawn ==
    /\ Cardinality(live) <= MAX_PARTICLES
    /\ (stage = "update") =>
          \A i \in DOMAIN queue :
              (queue[i].op = "spawn_particle" /\ queue[i].entity > 1) =>
                  /\ i >= 3
                  /\ IsDestroy(queue[i - 1])
                  /\ queue[i - 2] = Cmd("get_or_spawn", queue[i - 1].entity)
    /\ (stage = "update" /\ TickDone /\ queue # <<>>) =>
          queue[Len(queue)].op = "spawn_particle"

\* C6 witness: at the barrier of a tick past the warm-up the destroy request
\* has been applied and the create request is next.
C6_Witness ==
    /\ stage = "apply" /\ tick > MAX_PARTICLES + 1
    /\ queue # <<>> /\ Head(queue).op = "spawn_particle"
    /\ Cardinality(live) = MAX_PARTICLES - 1

\* C7: between ticks the buffer holds exactly the most recent
\* min(n, capacity) of the n handles spawned, in spawn order, and index 0
\* reads the oldest of them.
C7_OrderInvariant ==
    TickDone =>
        LET n == nextEntity - 1
            m == Min(n, MAX_PARTICLES)
        IN  /\ ringbuffer = Consecutive(n - m + 1, m)
            /\ RingGet(ringbuffer, 0) = (IF n = 0 THEN {} ELSE {n - m + 1})

\* C7 witness: more than capacity handles have been spawned.
C7_Witness ==
    /\ TickDone /\ stage = "update"
    /\ nextEntity - 1 > MAX_PARTICLES + 1
    /\ ringbuffer[1] = nextEntity - MAX_PARTICLES

\* C8: the ring buffer is changed by particles() alone and the sun state by
\* daylight_cycle() alone, so inside a frame each depends only on how far
\* its own system has run, and the frame's result is the same whichever of
\* the two runs first; setup() leaves the ring buffer empty.
C8_Independence ==
    /\ (stage = "apply" /\ tick = 0) => ringbuffer = <<>>
    /\ (stage = "update") =>
        LET start == [rb |-> frameRing, q |-> <<>>, next |-> frameNext] IN
        /\ ringbuffer = Iterations(start, iter).rb
        /\ (pcP = "get" /\ iter = 0) =>
              <<ringbuffer, queue, nextEntity>> = <<frameRing, <<>>, frameNext>>
        /\ (pcP = "done") =>
              LET end == Iterations(start, SpawnCount) IN
              <<ringbuffer, queue, nextEntity>> = <<end.rb, end.q, end.next>>
        /\ (pcD = "run") => <<sun_position, light>> = frameSun
        /\ (pcD = "done") => <<sun_position, light>> = SunAfter(time, frameSun[2])

\* C8 witness: both systems have run in a frame, and each changed its state.
C8_Witness ==
    /\ stage = "update" /\ pcP = "done" /\ pcD = "done"
    /\ tick > MAX_PARTICLES + 1
    /\ ringbuffer # frameRing
    /\ <<sun_position, light>> # frameSun

\* C9: at the end of a tick every spawned handle that is no longer in the
\* ring buffer has been issued a destroy request.
C9_NoLeakedParticles ==
    TickDone =>
        /\ \A x \in Spawned \ Range(ringbuffer) : destroyRequests[x] >= 1
        /\ NeverDestroyed \subseteq Range(ringbuffer)

\* C9 witness: pushes have overwritten the slots of the first two handles.
C9_Witness ==
    /\ TickDone
    /\ nextEntity > MAX_PARTICLES + 2
    /\ {1, 2} \cap Range(ringbuffer) = {}
    /\ destroyRequests[2] >= 1

\* C10: every queued destroy request targets a handle that was spawned, and
\* spawned in an earlier tick than the one that issues the request.
C10_DestroyTargetsEarlierTick ==
    \A i \in DOMAIN queue :
        queue[i].op \in {"get_or_spawn", "despawn_recursive"} =>
            /\ queue[i].entity \in Spawned
            /\ createdTick[queue[i].entity] < tick

\* C10 witness: a tick past the warm-up has issued its destroy request.
C10_Witness ==
    /\ stage = "update" /\ tick > MAX_PARTICLES + 1
    /\ \E i \in DOMAIN queue :
          IsDestroy(queue[i]) /\ queue[i].entity = frameRing[1]

====
